---------------------------- MODULE Spec2Model ----------------------------
(***************************************************************************)
(* The Pfand receipt system: logic.py (the Tk application: is_item_line,   *)
(* clean_extracted_items, process_receipt, calculate_pfand, ReceiptApp)    *)
(* and test.py (the script variant: its own is_item_line,                  *)
(* clean_extracted_items and a process_receipt with a positional filter).  *)
(*                                                                         *)
(* A Python str is a sequence of Unicode code points (naturals), so that   *)
(* len(), indexing, "in", sorted() and the case conversions are computed   *)
(* as CPython computes them.  An amount of money is a number of hundredths *)
(* (round(n * 0.25, 2) is exactly 25 * n hundredths for every count n).    *)
(***************************************************************************)
EXTENDS Integers, Sequences, FiniteSets

VARIABLES
    pc,            \* position of the run: "start", then the name of the call made last
    text,          \* argument of is_item_line
    verdict,       \* value is_item_line returned
    items,         \* argument of clean_extracted_items / calculate_pfand
    cleaned,       \* list returned by clean_extracted_items (process_receipt's result)
    recleaned,     \* list returned by clean_extracted_items applied to `cleaned`
    pfand,         \* value calculate_pfand returned, in hundredths
    blocks,        \* result.export()['pages'][0]['blocks']: blocks of lines of words
    raw_items,     \* process_receipt's local list raw_items at its return
    examined,      \* <<block, idx>> of the lines test.py handed to is_item_line
    results_text,  \* what ReceiptApp.results_text shows
    widget_state   \* the state option of results_text: "disabled" or "normal"

vars == <<pc, text, verdict, items, cleaned, recleaned, pfand, blocks,
          raw_items, examined, results_text, widget_state>>

-----------------------------------------------------------------------------
(* Bounds of the model.                                                    *)
MaxWords == 2        \* words per line handed to is_item_line
MaxItems == 3        \* length of the lists handed to the list functions
MaxLines == 3        \* lines of a receipt loaded into the application
MaxBlockLines == 6   \* lines of a block read by the test.py script

-----------------------------------------------------------------------------
(* Characters: the classes and case mappings CPython applies to the code   *)
(* points that occur in the model: ASCII, U+20AC EURO SIGN, U+0149 LATIN   *)
(* SMALL LETTER N PRECEDED BY APOSTROPHE, U+02BC MODIFIER LETTER           *)
(* APOSTROPHE, and the letter-like signs U+212A KELVIN, U+2126 OHM and     *)
(* U+212B ANGSTROM with the letters their case mappings lead to (U+00C5,   *)
(* U+00E5, U+03A9, U+03C9).                                                *)

\* re \d on a str pattern
IsDigit(c) == c \in 48..57

\* str.isspace, which str.strip() and re \s use: \t \n \v \f \r, FS GS RS US, space
IsSpace(c) == c \in (9..13) \cup (28..32)

\* str.isalpha: A-Z, a-z, U+0149 (Ll), U+02BC (Lm), the Kelvin, Ohm and
\* Angstrom signs (Lu) and the Latin-1 and Greek letters they map to
IsAlpha(c) ==
    c \in (65..90) \cup (97..122) \cup {329, 700, 8490, 8486, 8491, 197, 229, 937, 969}

\* re \w on a str pattern: alphanumeric or underscore
IsWordChar(c) == IsAlpha(c) \/ IsDigit(c) \/ c = 95

\* the lowercase mapping of one character (str.lower): the Kelvin sign maps to
\* "k", the Ohm sign to U+03C9, the Angstrom sign to U+00E5
LowerChar(c) ==
    IF c \in 65..90 THEN c + 32
    ELSE IF c = 8490 THEN 107
    ELSE IF c \in {8486, 937} THEN 969
    ELSE IF c \in {8491, 197} THEN 229
    ELSE c

\* the full titlecase mapping of one character, a string (str.capitalize uses it
\* for the first character): U+0149 maps to U+02BC followed by "N"; the
\* Kelvin, Ohm and Angstrom signs are uppercase and map to themselves
TitleChar(c) ==
    IF c \in 97..122 THEN <<c - 32>>
    ELSE IF c = 329 THEN <<700, 78>>
    ELSE IF c = 969 THEN <<937>>
    ELSE IF c = 229 THEN <<197>>
    ELSE <<c>>

-----------------------------------------------------------------------------
(* String methods.                                                         *)

\* str.lower()
lower(s) == [i \in 1..Len(s) |-> LowerChar(s[i])]

\* str.strip(): drop the leading and trailing whitespace
strip(s) ==
    LET keep == {i \in 1..Len(s) : ~IsSpace(s[i])}
        lo == CHOOSE i \in keep : \A j \in keep : i <= j
        hi == CHOOSE i \in keep : \A j \in keep : j <= i
    IN  IF keep = {} THEN <<>> ELSE SubSeq(s, lo, hi)

\* str.capitalize(): first character titlecased, all the others lowercased
capitalize(s) ==
    IF s = <<>> THEN <<>> ELSE TitleChar(Head(s)) \o lower(Tail(s))

\* k in t (substring test)
contains(t, k) ==
    \E i \in 1..(Len(t) - Len(k) + 1) : \A j \in 1..Len(k) : t[i + j - 1] = k[j]

\* ' '.join(words)
RECURSIVE join(_)
join(words) ==
    IF words = <<>> THEN <<>>
    ELSE IF Len(words) = 1 THEN Head(words)
    ELSE Head(words) \o <<32>> \o join(Tail(words))

\* a < b for two str: code point order, a proper prefix first
StrLess(a, b) ==
    \E i \in 1..Len(b) :
        /\ i <= Len(a) + 1
        /\ \A j \in 1..(i - 1) : a[j] = b[j]
        /\ (i = Len(a) + 1 \/ a[i] < b[i])

\* sorted(S) for a set of str
RECURSIVE sorted(_)
sorted(S) ==
    IF S = {} THEN <<>>
    ELSE LET m == CHOOSE x \in S : \A y \in S \ {x} : StrLess(x, y)
         IN  <<m>> \o sorted(S \ {m})

-----------------------------------------------------------------------------
(* logic.py is_item_line.                                                  *)

clutter_keywords ==
    { <<115, 116, 111, 114, 101>>,                           \* 'store'
      <<116, 111, 116, 97, 108>>,                            \* 'total'
      <<100, 117, 101>>,                                     \* 'due'
      <<100, 101, 98, 105, 116>>,                            \* 'debit'
      <<99, 114, 101, 100, 105, 116>>,                       \* 'credit'
      <<99, 97, 115, 104>>,                                  \* 'cash'
      <<112, 97, 121, 109, 101, 110, 116>>,                  \* 'payment'
      <<99, 104, 97, 110, 103, 101>>,                        \* 'change'
      <<98, 97, 108, 97, 110, 99, 101>>,                     \* 'balance'
      <<100, 97, 116, 101>>,                                 \* 'date'
      <<116, 105, 109, 101>>,                                \* 'time'
      <<118, 97, 116>>,                                      \* 'vat'
      <<116, 97, 120>>,                                      \* 'tax'
      <<116, 104, 97, 110, 107, 32, 121, 111, 117>>,         \* 'thank you'
      <<115, 117, 98, 116, 111, 116, 97, 108>>,              \* 'subtotal'
      <<100, 105, 115, 99, 111, 117, 110, 116>>,             \* 'discount'
      <<111, 102, 102, 101, 114>>,                           \* 'offer'
      <<102, 101, 101, 100, 98, 97, 99, 107>>,               \* 'feedback'
      <<115, 117, 114, 118, 101, 121>>,                      \* 'survey'
      <<112, 114, 105, 99, 101, 115>>,                       \* 'prices'
      <<110, 101, 116, 119, 111, 114, 107>>,                 \* 'network'
      <<116, 101, 114, 109, 105, 110, 97, 108>>,             \* 'terminal'
      <<114, 101, 102>>,                                     \* 'ref'
      <<97, 105, 100>>,                                      \* 'aid'
      <<97, 112, 112, 114, 32, 99, 111, 100, 101>>,          \* 'appr code'
      <<115, 116, 35>>,                                      \* 'st#'
      <<111, 112, 35>>,                                      \* 'op#'
      <<116, 101, 35>>,                                      \* 'te#'
      <<116, 114, 35>>,                                      \* 'tr#'
      <<116, 99, 35>> }                                      \* 'tc#'

\* len(re.findall(r'\d', text))
digit_count(t) == Cardinality({i \in 1..Len(t) : IsDigit(t[i])})

\* re.search(r'[^\w\s.,]', text): a character that is no word character, no
\* whitespace, no period and no comma
has_symbol(t) ==
    \E i \in 1..Len(t) : ~IsWordChar(t[i]) /\ ~IsSpace(t[i]) /\ t[i] \notin {46, 44}

\* re.search(r'\d+(\.\d{2})?\s*[\u20ac$]', text): digits t[i..j], an optional group
\* of a period and two digits (f = 3), whitespace up to e, then t[e] a euro or dollar sign
has_price(t) ==
    \E i \in 1..Len(t) : \E j \in i..Len(t) :
        /\ \A k \in i..j : IsDigit(t[k])
        /\ \E f \in {0, 3} :
              /\ f = 3 => /\ j + 3 <= Len(t)
                          /\ t[j + 1] = 46
                          /\ IsDigit(t[j + 2])
                          /\ IsDigit(t[j + 3])
              /\ \E e \in (j + f + 1)..Len(t) :
                    /\ \A k \in (j + f + 1)..(e - 1) : IsSpace(t[k])
                    /\ t[e] \in {8364, 36}

\* any(c.isalpha() for c in text)
has_alpha(t) == \E i \in 1..Len(t) : IsAlpha(t[i])

\* any(keyword in text.lower() for keyword in keywords)
has_keyword(t, keywords) == \E k \in keywords : contains(lower(t), k)

\* is_item_line with its length filter of test.py (len(text) < 3)
is_item_line_short_min(t) ==
    IF has_keyword(t, clutter_keywords) THEN FALSE
    ELSE IF 5 * digit_count(t) > 3 * Len(t) \/ has_symbol(t) THEN FALSE
    ELSE IF Len(t) < 3 \/ Len(t) > 50 THEN FALSE
    ELSE IF has_price(t) THEN has_alpha(t)
    ELSE TRUE

\* is_item_line(text).  digits > len(text) * 0.6 in floating point decides as
\* 5 * digits > 3 * len does for every length up to 300.
is_item_line(t) ==
    IF has_keyword(t, clutter_keywords) THEN FALSE
    ELSE IF 5 * digit_count(t) > 3 * Len(t) \/ has_symbol(t) THEN FALSE
    ELSE IF Len(t) < 5 \/ Len(t) > 50 THEN FALSE
    ELSE IF has_price(t) THEN has_alpha(t)
    ELSE TRUE

-----------------------------------------------------------------------------
(* test.py is_item_line.                                                   *)

test_clutter_keywords ==
    { <<115, 116, 111, 114, 101>>,                           \* 'store'
      <<116, 111, 116, 97, 108>>,                            \* 'total'
      <<100, 117, 101>>,                                     \* 'due'
      <<100, 101, 98, 105, 116>>,                            \* 'debit'
      <<99, 114, 101, 100, 105, 116>>,                       \* 'credit'
      <<99, 97, 115, 104>>,                                  \* 'cash'
      <<112, 97, 121, 109, 101, 110, 116>>,                  \* 'payment'
      <<99, 104, 97, 110, 103, 101>>,                        \* 'change'
      <<98, 97, 108, 97, 110, 99, 101>>,                     \* 'balance'
      <<100, 97, 116, 101>>,                                 \* 'date'
      <<116, 105, 109, 101>>,                                \* 'time'
      <<118, 97, 116>>,                                      \* 'vat'
      <<116, 97, 120>>,                                      \* 'tax'
      <<116, 104, 97, 110, 107, 32, 121, 111, 117>> }        \* 'thank you'

test_special_chars == {33, 64, 35, 36, 37, 94, 38, 42, 40, 41, 95, 43, 61, 124, 60, 62, 63, 123, 125, 126, 58, 59, 34}   \* !@#$%^&*()_+=|<>?{}~:;"


\* re.search(r'[!@#$%^&*()_+=|<>?{}~:;"]', text)
test_has_special(t) == \E i \in 1..Len(t) : t[i] \in test_special_chars

test_is_item_line(t) ==
    IF has_keyword(t, test_clutter_keywords) THEN FALSE
    ELSE IF digit_count(t) > 2 THEN FALSE
    ELSE IF Len(t) < 3 \/ Len(t) > 50 THEN FALSE
    ELSE IF test_has_special(t) THEN FALSE
    ELSE TRUE

-----------------------------------------------------------------------------
(* clean_extracted_items, both variants.                                   *)

\* the set comprehension of logic.py: item.strip().capitalize() for every item
\* with a non-empty item.strip()
capitalized_set(xs) ==
    {capitalize(strip(xs[i])) : i \in {j \in 1..Len(xs) : strip(xs[j]) # <<>>}}

\* logic.py clean_extracted_items without its sorted(): the entries in the
\* order of their first occurrence
RECURSIVE first_seen(_, _)
first_seen(xs, seen) ==
    IF xs = <<>> THEN <<>>
    ELSE LET e == capitalize(strip(Head(xs)))
         IN  IF strip(Head(xs)) = <<>> \/ e \in seen
             THEN first_seen(Tail(xs), seen)
             ELSE <<e>> \o first_seen(Tail(xs), seen \cup {e})

clean_extracted_items_unsorted(xs) == first_seen(xs, {})

\* logic.py clean_extracted_items: capitalize the rest of the item unchanged
clean_extracted_items_keep_rest(xs) ==
    sorted({TitleChar(Head(strip(xs[i]))) \o Tail(strip(xs[i])) :
              i \in {j \in 1..Len(xs) : strip(xs[j]) # <<>>}})

\* logic.py clean_extracted_items(items)
clean_extracted_items(xs) == sorted(capitalized_set(xs))

\* test.py clean_extracted_items: the loop over items, with cleaned_items and
\* seen_items as they stand before the item
RECURSIVE test_clean_loop(_, _, _)
test_clean_loop(xs, cleaned_items, seen_items) ==
    IF xs = <<>> THEN cleaned_items
    ELSE LET item == lower(strip(Head(xs)))
         IN  IF item \notin seen_items
             THEN test_clean_loop(Tail(xs), Append(cleaned_items, capitalize(item)),
                                  seen_items \cup {item})
             ELSE test_clean_loop(Tail(xs), cleaned_items, seen_items)

test_clean_extracted_items(xs) == test_clean_loop(xs, <<>>, {})

-----------------------------------------------------------------------------
(* logic.py calculate_pfand.                                               *)

bottle_keywords ==
    { <<99, 111, 99, 97, 32, 99, 111, 108, 97>>,             \* 'coca cola'
      <<112, 101, 112, 115, 105>>,                           \* 'pepsi'
      <<100, 97, 115, 97, 110, 105>>,                        \* 'dasani'
      <<98, 111, 116, 116, 108, 101>>,                       \* 'bottle'
      <<115, 112, 114, 105, 116, 101>>,                      \* 'sprite'
      <<102, 97, 110, 116, 97>>,                             \* 'fanta'
      <<101, 118, 105, 97, 110>>,                            \* 'evian'
      <<118, 111, 108, 118, 105, 99>>,                       \* 'volvic'
      <<110, 101, 115, 116, 108, 101>>,                      \* 'nestle'
      <<109, 105, 110, 101, 114, 97, 108, 32, 119, 97, 116, 101, 114>>, \* 'mineral water'
      <<103, 108, 97, 115, 115, 32, 98, 111, 116, 116, 108, 101>>, \* 'glass bottle'
      <<112, 108, 97, 115, 116, 105, 99, 32, 98, 111, 116, 116, 108, 101>> } \* 'plastic bottle'

\* pfand_per_bottle = 0.25, in hundredths
pfand_per_bottle == 25

\* sum(1 for item in items if any(keyword in item.lower() ...))
RECURSIVE bottle_count(_)
bottle_count(xs) ==
    IF xs = <<>> THEN 0
    ELSE (IF has_keyword(Head(xs), bottle_keywords) THEN 1 ELSE 0)
         + bottle_count(Tail(xs))

\* calculate_pfand counting every matching keyword of an item
RECURSIVE keyword_hits(_)
keyword_hits(xs) ==
    IF xs = <<>> THEN 0
    ELSE Cardinality({k \in bottle_keywords : contains(lower(Head(xs)), k)})
         + keyword_hits(Tail(xs))

calculate_pfand_per_keyword(xs) == keyword_hits(xs) * pfand_per_bottle

\* calculate_pfand(items): round(bottle_count * pfand_per_bottle, 2)
calculate_pfand(xs) == bottle_count(xs) * pfand_per_bottle

-----------------------------------------------------------------------------
(* Words and strings of the inputs.                                        *)

w_Milk == <<77, 105, 108, 107>>                            \* 'Milk'
w_Bread == <<66, 114, 101, 97, 100>>                       \* 'Bread'
w_Tea == <<84, 101, 97>>                                   \* 'Tea'
w_TOTAL == <<84, 79, 84, 65, 76>>                          \* 'TOTAL'
w_THANK == <<84, 72, 65, 78, 75>>                          \* 'THANK'
w_YOU == <<89, 79, 85>>                                    \* 'YOU'
w_12345 == <<49, 50, 51, 52, 53>>                          \* '12345'
w_123ab == <<49, 50, 51, 97, 98>>                          \* '123ab'
w_3_50_euro == <<51, 46, 53, 48, 8364>>                    \* '3.50\u20ac'
w_3_50 == <<51, 46, 53, 48>>                               \* '3.50'
w_dollar == <<36>>                                         \* '$'
w_2_percent == <<50, 37>>                                  \* '2%'
w_empty == <<>>                                            \* ''
w_25_letters == <<65, 98, 99, 100, 101, 102, 103, 104, 105, 106, 107, 108, 109, 110, 111, 112, 113, 114, 115, 116, 117, 118, 119, 120, 121>> \* 'Abcdefghijklmnopqrstuvwxy'
w_24_letters == <<65, 98, 99, 100, 101, 102, 103, 104, 105, 106, 107, 108, 109, 110, 111, 112, 113, 114, 115, 116, 117, 118, 119, 120>> \* 'Abcdefghijklmnopqrstuvwx'
w_STORE == <<83, 84, 79, 82, 69>>                          \* 'STORE'
w_XYZ == <<88, 89, 90>>                                    \* 'XYZ'
w_1_99_euro == <<49, 46, 57, 57, 8364>>                    \* '1.99\u20ac'
w_Coca == <<67, 111, 99, 97>>                              \* 'Coca'
w_Cola == <<67, 111, 108, 97>>                             \* 'Cola'
w_0_5L == <<48, 46, 53, 76>>                               \* '0.5L'
w_1_20_euro == <<49, 46, 50, 48, 8364>>                    \* '1.20\u20ac'
w_3_19_euro == <<51, 46, 49, 57, 8364>>                    \* '3.19\u20ac'
w_Glass == <<71, 108, 97, 115, 115>>                       \* 'Glass'
w_glass == <<103, 108, 97, 115, 115>>                      \* 'glass'
w_bottle == <<98, 111, 116, 116, 108, 101>>                \* 'bottle'
w_BOTTLE == <<66, 79, 84, 84, 76, 69>>                     \* 'BOTTLE'
w_Butter == <<66, 117, 116, 116, 101, 114>>                \* 'Butter'
w_kelvin == <<107, 101, 108, 118, 105, 110>>               \* 'kelvin'
w_Kelvin_sign_elvin == <<8490, 101, 108, 118, 105, 110>>   \* '\u212aelvin'
s_milk == <<109, 105, 108, 107>>                           \* 'milk'
s_Milk == <<77, 105, 108, 107>>                            \* 'Milk'
s_MILK_padded == <<32, 77, 73, 76, 75, 32>>                \* ' MILK '
s_blank == <<32, 32>>                                      \* '  '
s_coca_Cola == <<99, 111, 99, 97, 32, 67, 111, 108, 97>>   \* 'coca Cola'
s_underscore_x == <<95, 120>>                              \* '_x'
s_n_apostrophe == <<329>>                                  \* '\u0149'
s_apostrophe_n == <<700, 110>>                             \* '\u02bcn'
s_Coca_cola_500ml == <<67, 111, 99, 97, 32, 99, 111, 108, 97, 32, 53, 48, 48, 109, 108>> \* 'Coca cola 500ml'
s_Bread == <<66, 114, 101, 97, 100>>                       \* 'Bread'
s_Pepsi_bottle == <<80, 101, 112, 115, 105, 32, 98, 111, 116, 116, 108, 101>> \* 'Pepsi bottle'
s_Glass_bottle == <<71, 108, 97, 115, 115, 32, 98, 111, 116, 116, 108, 101>> \* 'Glass bottle'
s_MINERAL_WATER == <<77, 73, 78, 69, 82, 65, 76, 32, 87, 65, 84, 69, 82>> \* 'MINERAL WATER'
s_Coca_cola == <<67, 111, 99, 97, 32, 99, 111, 108, 97>>              \* 'Coca cola'

-----------------------------------------------------------------------------
(* process_receipt and ReceiptApp.process_and_display (logic.py);          *)
(* process_receipt (test.py).  A block is a sequence of lines, a line a    *)
(* sequence of words, a word the str of its 'value'.                       *)

\* the inner loop of logic.py process_receipt over the lines of one block
RECURSIVE block_raw_items(_)
block_raw_items(lines) ==
    IF lines = <<>> THEN <<>>
    ELSE LET t == join(Head(lines))
         IN  (IF is_item_line(t) THEN <<strip(t)>> ELSE <<>>)
             \o block_raw_items(Tail(lines))

\* the outer loop: raw_items when the loops end
RECURSIVE raw_items_of(_)
raw_items_of(bs) ==
    IF bs = <<>> THEN <<>>
    ELSE block_raw_items(Head(bs)) \o raw_items_of(Tail(bs))

\* logic.py process_receipt, OCR result given: clean_extracted_items(raw_items)
process_receipt(bs) == clean_extracted_items(raw_items_of(bs))

\* test.py: the line at 0-based idx of a block of n lines is not skipped
\* (the negation of idx < 3 or idx > len(block['lines']) - 3)
test_not_skipped(idx, n) == ~(idx < 3 \/ idx > n - 3)

\* test.py: the inner loop over enumerate(block['lines']), from 0-based idx on
RECURSIVE test_block_raw_items(_, _)
test_block_raw_items(lines, idx) ==
    IF idx >= Len(lines) THEN <<>>
    ELSE LET t == join(lines[idx + 1])
         IN  (IF test_not_skipped(idx, Len(lines)) /\ test_is_item_line(t)
              THEN <<strip(t)>> ELSE <<>>)
             \o test_block_raw_items(lines, idx + 1)

RECURSIVE test_raw_items_of(_)
test_raw_items_of(bs) ==
    IF bs = <<>> THEN <<>>
    ELSE test_block_raw_items(Head(bs), 0) \o test_raw_items_of(Tail(bs))

\* test.py: the lines that reach is_item_line, as <<block number, idx>>
test_examined(bs) ==
    UNION {{<<b, idx>> : idx \in {i \in 0..(Len(bs[b]) - 1) :
                                    test_not_skipped(i, Len(bs[b]))}} :
           b \in 1..Len(bs)}

\* test.py process_receipt, OCR result given
test_process_receipt(bs) == test_clean_extracted_items(test_raw_items_of(bs))

-----------------------------------------------------------------------------
(* Inputs.                                                                 *)

SeqsUpTo(S, n) == UNION {[1..k -> S] : k \in 0..n}

\* the ways an OCR result lays a sequence of lines out in one or two blocks
Layouts(ls) ==
    {<<ls>>} \cup {<<SubSeq(ls, 1, k), SubSeq(ls, k + 1, Len(ls))>> : k \in 1..(Len(ls) - 1)}


Words ==
    {w_Milk, w_Bread, w_Tea, w_TOTAL, w_THANK, w_YOU, w_12345, w_123ab,
     w_3_50_euro, w_3_50, w_dollar, w_2_percent, w_empty, w_25_letters,
     w_24_letters}

\* the lines is_item_line is called on
Texts == {join(ws) : ws \in SeqsUpTo(Words, MaxWords)}

\* the lists clean_extracted_items is called on
CleanPool ==
    {s_milk, s_Milk, s_MILK_padded, s_blank, s_coca_Cola, s_underscore_x,
     s_n_apostrophe, s_apostrophe_n}

\* the lists calculate_pfand is called on
PfandPool ==
    {s_Coca_cola_500ml, s_Bread, s_Pepsi_bottle, s_Glass_bottle, s_MINERAL_WATER}

\* the lines of the receipts loaded into the application
l_Store == <<w_STORE, w_XYZ>>
l_Milk == <<w_Milk, w_2_percent, w_empty, w_1_99_euro>>
l_Bread == <<w_Bread>>
l_Coca_priced == <<w_Coca, w_Cola, w_0_5L, w_1_20_euro>>
l_Total == <<w_TOTAL, w_3_19_euro>>
l_Thank_you == <<w_THANK, w_YOU>>
l_Glass_bottle == <<w_Glass, w_bottle>>
l_glass_BOTTLE == <<w_glass, w_BOTTLE>>
l_Coca == <<w_Coca, w_Cola, w_0_5L>>
l_Butter == <<w_Butter>>
l_kelvin_bottle == <<w_kelvin, w_bottle>>
l_Kelvin_sign_bottle == <<w_Kelvin_sign_elvin, w_bottle>>

LinePool ==
    {l_Bread, l_Coca_priced, l_Total, l_Glass_bottle, l_glass_BOTTLE, l_Coca,
     l_kelvin_bottle, l_Kelvin_sign_bottle}

\* the receipt of the end-to-end example
EndToEndLines == <<l_Store, l_Milk, l_Bread, l_Coca_priced, l_Total, l_Thank_you>>

Receipts ==
    UNION {Layouts(ls) : ls \in SeqsUpTo(LinePool, MaxLines) \cup {EndToEndLines}}

\* the OCR results the test.py script reads
TestLinePool == {l_Bread, l_Butter, l_Total}

TestReceipts == UNION {Layouts(ls) : ls \in SeqsUpTo(TestLinePool, MaxBlockLines)}

-----------------------------------------------------------------------------
(* The runs.                                                               *)

Idle(v) ==
    CASE v = "text" -> text = <<>> /\ verdict = FALSE
      [] v = "items" -> items = <<>>
      [] v = "cleaned" -> cleaned = <<>> /\ recleaned = <<>>
      [] v = "pfand" -> pfand = 0
      [] v = "receipt" -> blocks = <<>> /\ raw_items = <<>> /\ examined = {}
      [] v = "window" -> results_text = "" /\ widget_state = "disabled"

\* a call of is_item_line(text)
InitClassify ==
    /\ pc = "start"
    /\ text \in Texts
    /\ verdict = FALSE
    /\ Idle("items") /\ Idle("cleaned") /\ Idle("pfand") /\ Idle("receipt")
    /\ Idle("window")

IsItemLine ==
    /\ pc = "start"
    /\ pc' = "is_item_line"
    /\ verdict' = is_item_line(text)
    /\ UNCHANGED <<text, items, cleaned, recleaned, pfand, blocks, raw_items,
                   examined, results_text, widget_state>>

SpecClassify == InitClassify /\ [][IsItemLine]_vars

\* clean_extracted_items(items), and clean_extracted_items of its result
InitClean ==
    /\ pc = "start"
    /\ items \in SeqsUpTo(CleanPool, MaxItems)
    /\ Idle("text") /\ Idle("cleaned") /\ Idle("pfand") /\ Idle("receipt")
    /\ Idle("window")

Clean ==
    /\ pc = "start"
    /\ pc' = "clean"
    /\ cleaned' = clean_extracted_items(items)
    /\ UNCHANGED <<text, verdict, items, recleaned, pfand, blocks, raw_items,
                   examined, results_text, widget_state>>

CleanAgain ==
    /\ pc = "clean"
    /\ pc' = "clean_again"
    /\ recleaned' = clean_extracted_items(cleaned)
    /\ UNCHANGED <<text, verdict, items, cleaned, pfand, blocks, raw_items,
                   examined, results_text, widget_state>>

TestClean ==
    /\ pc = "start"
    /\ pc' = "test_clean"
    /\ cleaned' = test_clean_extracted_items(items)
    /\ UNCHANGED <<text, verdict, items, recleaned, pfand, blocks, raw_items,
                   examined, results_text, widget_state>>

TestCleanAgain ==
    /\ pc = "test_clean"
    /\ pc' = "test_clean_again"
    /\ recleaned' = test_clean_extracted_items(cleaned)
    /\ UNCHANGED <<text, verdict, items, cleaned, pfand, blocks, raw_items,
                   examined, results_text, widget_state>>

NextClean == Clean \/ CleanAgain \/ TestClean \/ TestCleanAgain

SpecClean == InitClean /\ [][NextClean]_vars

\* a call of calculate_pfand(items)
InitPfand ==
    /\ pc = "start"
    /\ items \in SeqsUpTo(PfandPool, MaxItems)
    /\ Idle("text") /\ Idle("cleaned") /\ Idle("pfand") /\ Idle("receipt")
    /\ Idle("window")

CalculatePfand ==
    /\ pc = "start"
    /\ pc' = "calculate_pfand"
    /\ pfand' = calculate_pfand(items)
    /\ UNCHANGED <<text, verdict, items, cleaned, recleaned, blocks, raw_items,
                   examined, results_text, widget_state>>

SpecPfand == InitPfand /\ [][CalculatePfand]_vars

\* the application: ReceiptApp after __init__, with the OCR result of the image
\* the user is going to load.  process_and_display clears results_text before
\* anything else and reads no other state, so a run follows one image.
Init ==
    /\ pc = "start"
    /\ blocks \in Receipts
    /\ raw_items = <<>> /\ examined = {}
    /\ Idle("text") /\ Idle("items") /\ Idle("cleaned") /\ Idle("pfand")
    /\ Idle("window")

\* load_receipt when the file dialog is cancelled: not file_path, return
LoadCancelled ==
    /\ pc # "error_dialog"
    /\ UNCHANGED vars

\* load_receipt with the file chosen and read: process_and_display(file_path).
\* No callback runs between the delete and the inserts (process_receipt blocks
\* without entering the event loop), so the handler is one step.
LoadReceipt ==
    LET its == process_receipt(blocks)
    IN  /\ pc # "error_dialog"
        /\ pc' = "load_receipt"
        /\ raw_items' = raw_items_of(blocks)
        /\ cleaned' = its
        /\ IF its # <<>>
           THEN /\ results_text' = "Extracted Items"
                /\ pfand' = calculate_pfand(its)
           ELSE /\ results_text' = "No valid items found or error in processing."
                /\ pfand' = 0
        /\ widget_state' = "disabled"
        /\ UNCHANGED <<text, verdict, items, recleaned, blocks, examined>>

\* load_receipt when process_receipt raises (file not found, OCR failure), up
\* to the error dialog: results_text is made editable and emptied, then
\* showerror opens its modal dialog and waits in the event loop
LoadReceiptError ==
    /\ pc # "error_dialog"
    /\ pc' = "error_dialog"
    /\ raw_items' = <<>>
    /\ cleaned' = <<>>
    /\ pfand' = 0
    /\ results_text' = ""
    /\ widget_state' = "normal"
    /\ UNCHANGED <<text, verdict, items, recleaned, blocks, examined>>

\* the error dialog is closed: process_receipt returns [], process_and_display
\* inserts its message and disables the widget
ErrorDialogClosed ==
    /\ pc = "error_dialog"
    /\ pc' = "load_receipt_error"
    /\ results_text' = "No valid items found or error in processing."
    /\ widget_state' = "disabled"
    /\ UNCHANGED <<text, verdict, items, cleaned, recleaned, pfand, blocks,
                   raw_items, examined>>

Next == LoadCancelled \/ LoadReceipt \/ LoadReceiptError \/ ErrorDialogClosed

Spec == Init /\ [][Next]_vars

\* the test.py script: process_receipt(receipt_image), then print
InitTest ==
    /\ pc = "start"
    /\ blocks \in TestReceipts
    /\ raw_items = <<>> /\ examined = {}
    /\ Idle("text") /\ Idle("items") /\ Idle("cleaned") /\ Idle("pfand")
    /\ Idle("window")

TestProcessReceipt ==
    /\ pc = "start"
    /\ pc' = "test_process_receipt"
    /\ raw_items' = test_raw_items_of(blocks)
    /\ examined' = test_examined(blocks)
    /\ cleaned' = test_process_receipt(blocks)
    /\ UNCHANGED <<text, verdict, items, recleaned, pfand, blocks, results_text,
                   widget_state>>

SpecTest == InitTest /\ [][TestProcessReceipt]_vars

-----------------------------------------------------------------------------
(* Properties.                                                             *)

\* the lines of an OCR result, block after block
RECURSIVE lines_of(_)
lines_of(bs) == IF bs = <<>> THEN <<>> ELSE Head(bs) \o lines_of(Tail(bs))

\* the canonical key of an item string: trimmed and lowercased
Key(s) == lower(strip(s))

\* s with its first character titlecased and every other character lowercased
FirstUpperRestLower(s) ==
    IF s = <<>> THEN <<>>
    ELSE TitleChar(s[1]) \o [i \in 1..(Len(s) - 1) |-> LowerChar(s[i + 1])]

\* s with its first character titlecased and every other character unchanged
FirstUpperRestKept(s) ==
    IF s = <<>> THEN <<>>
    ELSE TitleChar(s[1]) \o [i \in 1..(Len(s) - 1) |-> s[i + 1]]

Entries(xs) == {xs[i] : i \in 1..Len(xs)}

\* C1: is_item_line returns False for every line that contains a clutter
\* keyword (lowercased, as a substring), or whose digits are more than 60% of
\* its characters, or whose length is below 5 or above 50.
C1_Rejected ==
    ( /\ pc = "is_item_line"
      /\ \/ \E k \in clutter_keywords : contains(lower(text), k)
         \/ 5 * Cardinality({i \in 1..Len(text) : text[i] \in 48..57}) > 3 * Len(text)
         \/ Len(text) < 5
         \/ Len(text) > 50 )
    => verdict = FALSE

\* C1 witness: a line of 5..50 characters without keyword or symbol, more than
\* 60% digits, was rejected.
C1_Witness ==
    /\ pc = "is_item_line"
    /\ text = join(<<w_12345, w_12345>>)
    /\ ~has_keyword(text, clutter_keywords) /\ ~has_symbol(text)
    /\ 5 * digit_count(text) > 3 * Len(text)
    /\ verdict = FALSE

\* C2: for a line with a price pattern, is_item_line returns False when the
\* line has no alphabetic character, and True when it has one, contains no
\* clutter keyword, has 5..50 characters and at most 60% digits.
C2_PriceLines ==
    (pc = "is_item_line" /\ has_price(text)) =>
        /\ ~has_alpha(text) => verdict = FALSE
        /\ ( /\ has_alpha(text)
             /\ ~has_keyword(text, clutter_keywords)
             /\ Len(text) >= 5 /\ Len(text) <= 50
             /\ 5 * digit_count(text) <= 3 * Len(text) )
           => verdict = TRUE

\* C3: loading the end-to-end receipt shows a list that holds "Bread" and the
\* Coca Cola line, none of the STORE / TOTAL / THANK YOU lines, and a deposit
\* of 0.25.
C3_EndToEnd ==
    (pc = "load_receipt" /\ lines_of(blocks) = EndToEndLines) =>
        /\ results_text = "Extracted Items"
        /\ s_Bread \in Entries(cleaned)
        /\ \E e \in Entries(cleaned) : contains(lower(e), lower(join(<<w_Coca, w_Cola>>)))
        /\ \A e \in Entries(cleaned) :
              /\ ~contains(lower(e), lower(w_STORE))
              /\ ~contains(lower(e), lower(w_TOTAL))
              /\ ~contains(lower(e), lower(join(l_Thank_you)))
        /\ pfand = 25

\* C4: the list returned by clean_extracted_items (either variant) has no two
\* entries equal after trimming and lowercasing, and ["milk", "Milk", " MILK "]
\* yields ["Milk"].
C4_NoTwoEntriesWithOneKey ==
    pc \in {"clean", "test_clean"} =>
        /\ \A i, j \in 1..Len(cleaned) : i # j => Key(cleaned[i]) # Key(cleaned[j])
        /\ items = <<s_milk, s_Milk, s_MILK_padded>> => cleaned = <<s_Milk>>

\* C5: clean_extracted_items applied to its own result returns that result
\* (either variant).
C5_Idempotent ==
    pc \in {"clean_again", "test_clean_again"} => recleaned = cleaned

\* C6: calculate_pfand returns 0.25 times the number of items that contain at
\* least one deposit keyword, each item counted once; never negative, 0 for
\* the empty list, 0.50 for ["Coca cola 500ml", "Bread", "Pepsi bottle"].
C6_Deposit ==
    pc = "calculate_pfand" =>
        /\ pfand = 25 * Cardinality({i \in 1..Len(items) :
                        \E k \in bottle_keywords : contains(lower(items[i]), k)})
        /\ pfand >= 0
        /\ items = <<>> => pfand = 0
        /\ items = <<s_Coca_cola_500ml, s_Bread, s_Pepsi_bottle>> => pfand = 50

\* C6 witness: the three-item example was priced at 0.50.
C6_Witness ==
    /\ pc = "calculate_pfand"
    /\ items = <<s_Coca_cola_500ml, s_Bread, s_Pepsi_bottle>>
    /\ pfand = 50

\* C7: in the application the deposit is computed on the list returned by
\* clean_extracted_items: the accepted raw lines that share one canonical key
\* contribute one unit at most, so the deposit is 0.25 times the number of
\* distinct keys of accepted lines that contain a deposit keyword.
C7_DedupBeforeDeposit ==
    pc = "load_receipt" =>
        LET keys == {Key(raw_items[i]) : i \in 1..Len(raw_items)}
            bottles == {k \in keys : \E w \in bottle_keywords : contains(k, w)}
        IN  /\ pfand = 25 * Cardinality(bottles)
            /\ pfand = 25 * Cardinality({i \in 1..Len(cleaned) :
                            \E w \in bottle_keywords : contains(lower(cleaned[i]), w)})

\* C8 as stated: every entry of the result is the first-seen trimmed candidate
\* of its key with only the first character uppercased and the rest unchanged,
\* and candidates empty after trimming produce no entry (either variant).
C8_SurfaceFormKept ==
    pc \in {"clean", "test_clean"} =>
        \A e \in Entries(cleaned) :
            \E i \in 1..Len(items) :
                /\ strip(items[i]) # <<>>
                /\ \A j \in 1..(i - 1) : Key(items[j]) # Key(items[i])
                /\ e = FirstUpperRestKept(strip(items[i]))

\* C8 amended: the entries of the result are the trimmed candidates with the
\* first character uppercased and every other character lowercased.  logic.py
\* makes no entry for a candidate that is empty after trimming; test.py
\* capitalizes the lowercased candidate and keeps an empty one as "".
C8_FirstUpperRestLower ==
    /\ pc = "clean" =>
          Entries(cleaned) =
              {FirstUpperRestLower(strip(items[i])) :
                  i \in {j \in 1..Len(items) : strip(items[j]) # <<>>}}
    /\ pc = "test_clean" =>
          Entries(cleaned) =
              {FirstUpperRestLower(Key(items[i])) : i \in 1..Len(items)}

\* C8 witness: "coca Cola" came out as "Coca cola".
C8_Witness ==
    /\ pc = "clean"
    /\ items = <<s_coca_Cola>>
    /\ cleaned = <<s_Coca_cola>>

\* C9 as stated: the result of logic.py clean_extracted_items is ordered by
\* the lowercased entries: lower(a) <= lower(b) for adjacent a before b.
C9_OrderedByKey ==
    pc = "clean" =>
        \A i \in 1..(Len(cleaned) - 1) :
            ~StrLess(lower(cleaned[i + 1]), lower(cleaned[i]))

\* C9 amended: the result of logic.py clean_extracted_items is ordered by the
\* code points of the entries themselves: a < b for adjacent a before b.
C9_OrderedByEntry ==
    pc = "clean" =>
        \A i \in 1..(Len(cleaned) - 1) : StrLess(cleaned[i], cleaned[i + 1])

\* C9 witness: ["_x", "milk"] came out as ["Milk", "_x"].
C9_Witness ==
    /\ pc = "clean"
    /\ items = <<s_underscore_x, s_milk>>
    /\ cleaned = <<s_Milk, s_underscore_x>>

\* C10: test.py process_receipt hands no line to is_item_line that lies in the
\* first 3 (idx < 3) or the last 3 (idx >= n - 3) positions of its block.
C10_MarginsSkipped ==
    pc = "test_process_receipt" =>
        \A e \in examined :
            ~(e[2] < 3 \/ e[2] >= Len(blocks[e[1]]) - 3)

=============================================================================
